---------------------------- MODULE Spec2Model ----------------------------
(***************************************************************************)
(* A model of vox: natural language -> shell command, confirm, execute.    *)
(*                                                                         *)
(*   src/vox/llm_client.py   _clean_response, generate_command             *)
(*   src/vox/cli.py          main, _write_cmd_file, _has_shell_wrapper,    *)
(*                           _run_directly, the vox() shell wrapper        *)
(*                                                                         *)
(* Strings are sequences of one-character strings, so that stripping,      *)
(* lower-casing, substring search and the fence regex are computed         *)
(* character by character as Python computes them.                         *)
(***************************************************************************)
EXTENDS Integers, Sequences, FiniteSets, TLC

(***************************************************************************)
(* Bounds of the model.                                                    *)
(***************************************************************************)
MaxTextLen == 5        \* raw texts handed to _clean_response on its own
MaxTagLen == 1         \* language tag of a fenced block
MaxCmdLen == 3         \* command inside a fenced block
MaxContentLen == 3     \* choices[0].message.content of a modelled reply
MaxFrags == 2          \* fragments making up a provider error message
MaxAnswerLen == 3      \* characters typed at the "Run? (Y/n)" prompt

(***************************************************************************)
(* Characters and strings.                                                 *)
(***************************************************************************)
BT == "BACKTICK"   \* the backtick character (it cannot be written in a TLA+ string)
SP == " "
NL == "\n"

WordChars == {"a", "b", "_", "0"}
SpaceChars == {SP, NL}

\* the characters raw model replies are drawn from
TextAlphabet == {BT, SP, NL, "a", "-"}

RECURSIVE SeqsOfLen(_, _)
SeqsOfLen(S, n) ==
    IF n = 0 THEN {<<>>}
    ELSE {<<c>> \o s : c \in S, s \in SeqsOfLen(S, n - 1)}

SeqsUpTo(S, n) == UNION {SeqsOfLen(S, k) : k \in 0..n}

\* the option type: no value, or one value
None == {}
Some(x) == {x}

UpperLetters == <<"A","B","C","D","E","F","G","H","I","J","K","L","M",
                  "N","O","P","Q","R","S","T","U","V","W","X","Y","Z">>
LowerLetters == <<"a","b","c","d","e","f","g","h","i","j","k","l","m",
                  "n","o","p","q","r","s","t","u","v","w","x","y","z">>

\* str.lower() on one character
LowerChar(c) ==
    IF \E i \in 1..26 : UpperLetters[i] = c
    THEN LowerLetters[CHOOSE i \in 1..26 : UpperLetters[i] = c]
    ELSE c

\* str.lower()
Lower(s) == [i \in 1..Len(s) |-> LowerChar(s[i])]

RECURSIVE LStrip(_, _)
LStrip(s, chars) ==
    IF s # <<>> /\ Head(s) \in chars THEN LStrip(Tail(s), chars) ELSE s

RECURSIVE RStrip(_, _)
RStrip(s, chars) ==
    IF s # <<>> /\ s[Len(s)] \in chars
    THEN RStrip(SubSeq(s, 1, Len(s) - 1), chars)
    ELSE s

\* str.strip(chars): leading and trailing characters of the set removed
StripChars(s, chars) == RStrip(LStrip(s, chars), chars)

\* "needle in hay"
Contains(hay, needle) ==
    \E i \in 1..(Len(hay) - Len(needle) + 1) :
        SubSeq(hay, i, i + Len(needle) - 1) = needle

(***************************************************************************)
(* _clean_response (llm_client.py:34-38).                                  *)
(***************************************************************************)
\* the greedy [\w]* after a fence
RECURSIVE DropWord(_)
DropWord(s) ==
    IF s # <<>> /\ Head(s) \in WordChars THEN DropWord(Tail(s)) ELSE s

\* the optional \n? after the tag
DropNewline(s) == IF s # <<>> /\ Head(s) = NL THEN Tail(s) ELSE s

StartsWithFence(s) ==
    Len(s) >= 3 /\ s[1] = BT /\ s[2] = BT /\ s[3] = BT

\* re.sub(r"<3 backticks>[\w]*\n?", "", text): leftmost non-overlapping matches,
\* scanned left to right, each replaced by the empty string
RECURSIVE SubFence(_)
SubFence(s) ==
    IF s = <<>> THEN <<>>
    ELSE IF StartsWithFence(s)
         THEN SubFence(DropNewline(DropWord(SubSeq(s, 4, Len(s)))))
         ELSE <<Head(s)>> \o SubFence(Tail(s))

\* a faulty variant of _clean_response: the surrounding whitespace is not trimmed
CleanNoTrim(text) == StripChars(SubFence(text), {BT})

\* text.strip(<backtick>).strip() after the substitution
_clean_response(text) ==
    StripChars(StripChars(SubFence(text), {BT}), SpaceChars)

(***************************************************************************)
(* JSON values, and the Python operations generate_command applies to them *)
(* (each either returns a value or raises).                                *)
(***************************************************************************)
NotJSON == [t |-> "notjson"]            \* a body that is no JSON document
JNull == [t |-> "null"]
JNum(n) == [t |-> "num", n |-> n]
JStr(s) == [t |-> "str", s |-> s]
JList(items) == [t |-> "list", items |-> items]
JDict(d) == [t |-> "dict", d |-> d]
EmptyDict == JDict([k \in {} |-> JNull])

Returns(v) == [ok |-> TRUE, v |-> v, exc |-> ""]
Raises(e) == [ok |-> FALSE, v |-> JNull, exc |-> e]

\* response.json()
PyJson(body) ==
    IF body.t = "notjson" THEN Raises("JSONDecodeError") ELSE Returns(body)

\* v.get(key, default)
PyGet(v, key, default) ==
    IF v.t = "dict"
    THEN Returns(IF key \in DOMAIN v.d THEN v.d[key] ELSE default)
    ELSE Raises("AttributeError")

\* v[key] for a string key
PyItem(v, key) ==
    IF v.t = "dict"
    THEN IF key \in DOMAIN v.d THEN Returns(v.d[key]) ELSE Raises("KeyError")
    ELSE Raises("TypeError")

\* v[0]
PyItem0(v) ==
    CASE v.t = "dict" -> Raises("KeyError")
      [] v.t = "list" -> IF v.items # <<>> THEN Returns(v.items[1])
                         ELSE Raises("IndexError")
      [] v.t = "str" -> IF v.s # <<>> THEN Returns(JStr(<<v.s[1]>>))
                        ELSE Raises("IndexError")
      [] OTHER -> Raises("TypeError")

\* bool(v)
PyTruthy(v) ==
    CASE v.t = "null" -> FALSE
      [] v.t = "num" -> v.n # 0
      [] v.t = "str" -> v.s # <<>>
      [] v.t = "list" -> v.items # <<>>
      [] v.t = "dict" -> DOMAIN v.d # {}
      [] OTHER -> FALSE

\* response.json().get("error", {}).get("message", "") inside
\* try/except Exception: any exception gives ""
ErrorMessage(body) ==
    LET j == PyJson(body)
        e == IF j.ok THEN PyGet(j.v, "error", EmptyDict) ELSE j
        m == IF e.ok THEN PyGet(e.v, "message", JStr(<<>>)) ELSE e
    IN IF m.ok THEN m.v ELSE JStr(<<>>)

\* data = response.json(); content = data["choices"][0]["message"]["content"]
ContentOf(body) ==
    LET j == PyJson(body)
        c == IF j.ok THEN PyItem(j.v, "choices") ELSE j
        z == IF c.ok THEN PyItem0(c.v) ELSE c
        m == IF z.ok THEN PyItem(z.v, "message") ELSE z
    IN IF m.ok THEN PyItem(m.v, "content") ELSE m

(***************************************************************************)
(* generate_command (llm_client.py:41-111).  What a call gives: the        *)
(* command it returns, or the exception that leaves it (exc) with the      *)
(* message it carries (msg).                                               *)
(***************************************************************************)
MsgUnreachable == "Cannot reach the API. Check your internet connection."
MsgTimedOut == "API request timed out. Try again."
MsgModel == "Model is not available on your plan."
MsgInvalidKey == "Invalid API key."
MsgRateLimited == "Rate limited."
MsgHttp == "API returned HTTP <status>."
MsgFormat == "Unexpected response format from API."
MsgEmpty == "Empty response from API."

GenReturn(cmd) ==
    [exc |-> "", msg |-> "", status |-> 0, detail |-> JStr(<<>>), command |-> cmd]
GenRaise(e, m) ==
    [exc |-> e, msg |-> m, status |-> 0, detail |-> JStr(<<>>), command |-> <<>>]
GenRaiseHttp(code, d) ==
    [exc |-> "RuntimeError", msg |-> MsgHttp, status |-> code, detail |-> d,
     command |-> <<>>]

\* the classes of requests' exceptions: what an except clause naming a
\* class catches
RequestsSupers(e) ==
    CASE e = "ConnectionError" -> {"ConnectionError"}
      [] e = "ConnectTimeout" -> {"ConnectTimeout", "ConnectionError", "Timeout"}
      [] e = "ReadTimeout" -> {"ReadTimeout", "Timeout"}
      [] OTHER -> {e}

\* lines 55-75: the exceptions of requests.post
OnTransportError(e) ==
    IF "ConnectionError" \in RequestsSupers(e)
    THEN GenRaise("ConnectionError", MsgUnreachable)
    ELSE IF "Timeout" \in RequestsSupers(e)
         THEN GenRaise("ConnectionError", MsgTimedOut)
         ELSE GenRaise(e, "")

Word_model == <<"m", "o", "d", "e", "l">>
Word_tier == <<"t", "i", "e", "r">>

\* lines 77-87: err_msg.lower() is outside the try, and only a str has it
On401(body) ==
    LET m == ErrorMessage(body)
    IN IF m.t # "str" THEN GenRaise("AttributeError", "")
       ELSE IF Contains(Lower(m.s), Word_model) \/ Contains(Lower(m.s), Word_tier)
            THEN GenRaise("PermissionError", MsgModel)
            ELSE GenRaise("PermissionError", MsgInvalidKey)

\* lines 91-99
OnOtherStatus(code, body) ==
    LET d == ErrorMessage(body)
    IN GenRaiseHttp(code, IF PyTruthy(d) THEN d ELSE JStr(<<>>))

\* a faulty variant of On200: the empty command is returned
On200NoEmptyGuard(body) ==
    LET c == ContentOf(body)
    IN IF ~c.ok
       THEN IF c.exc \in {"KeyError", "IndexError", "TypeError"}
            THEN GenRaise("RuntimeError", MsgFormat)
            ELSE GenRaise(c.exc, "")
       ELSE IF c.v.t # "str" THEN GenRaise("TypeError", "")
            ELSE GenReturn(_clean_response(c.v.s))

\* lines 101-111: re.sub in _clean_response raises TypeError on a content
\* that is no str, outside the try
On200(body) ==
    LET c == ContentOf(body)
    IN IF ~c.ok
       THEN IF c.exc \in {"KeyError", "IndexError", "TypeError"}
            THEN GenRaise("RuntimeError", MsgFormat)
            ELSE GenRaise(c.exc, "")
       ELSE IF c.v.t # "str" THEN GenRaise("TypeError", "")
            ELSE IF _clean_response(c.v.s) = <<>>
                 THEN GenRaise("RuntimeError", MsgEmpty)
                 ELSE GenReturn(_clean_response(c.v.s))

generate_command(resp) ==
    IF resp.transport # "response" THEN OnTransportError(resp.transport)
    ELSE IF resp.status = 401 THEN On401(resp.body)
    ELSE IF resp.status = 429 THEN GenRaise("RuntimeError", MsgRateLimited)
    ELSE IF resp.status # 200 THEN OnOtherStatus(resp.status, resp.body)
    ELSE On200(resp.body)

\* the error taxonomy (spec section 7) a result falls in: the exception
\* class main catches, with the message that tells the kinds apart
ErrorClass(r) ==
    CASE r.exc = "" -> "none"
      [] r.exc = "ConnectionError" -> "Unreachable"
      [] r.exc = "PermissionError" /\ r.msg = MsgModel -> "ModelNotEntitled"
      [] r.exc = "PermissionError" -> "InvalidCredential"
      [] r.exc = "RuntimeError" /\ r.msg = MsgRateLimited -> "RateLimited"
      [] r.exc = "RuntimeError" /\ r.msg = MsgHttp -> "ProviderError"
      [] r.exc = "RuntimeError" /\ r.msg = MsgFormat -> "MalformedResponse"
      [] r.exc = "RuntimeError" /\ r.msg = MsgEmpty -> "EmptyResponse"
      [] OTHER -> "unclassified"

ClassifiedErrors ==
    {"Unreachable", "InvalidCredential", "ModelNotEntitled", "RateLimited",
     "ProviderError", "MalformedResponse", "EmptyResponse"}

(***************************************************************************)
(* The replies of the provider the model draws from.                       *)
(***************************************************************************)
ContentAlphabet == {BT, SP, NL, "a"}
Contents == SeqsUpTo(ContentAlphabet, MaxContentLen)

Fragments ==
    {<<"m", "o", "d">>, <<"e", "l">>, <<"T", "i", "e", "r">>,
     <<"M", "O", "D", "E", "L">>, <<"k", "e", "y">>, <<" ">>}

RECURSIVE FragStrings(_)
FragStrings(n) ==
    IF n = 0 THEN {<<>>}
    ELSE {f \o s : f \in Fragments, s \in FragStrings(n - 1)}

ErrMsgs == UNION {FragStrings(k) : k \in 0..MaxFrags}

ErrorBody(m) == JDict([error |-> JDict([message |-> m])])
ReplyBody(c) ==
    JDict([choices |-> JList(<<JDict([message |-> JDict([content |-> c])])>>)])

ErrorBodies ==
    {NotJSON, JNull, JList(<<>>), EmptyDict,
     JDict([error |-> JStr(<<"k", "e", "y">>)]),
     JDict([error |-> JNull]),
     JDict([error |-> EmptyDict]),
     ErrorBody(JNull), ErrorBody(JNum(0)), ErrorBody(JNum(5))}
    \cup {ErrorBody(JStr(m)) : m \in ErrMsgs}

ReplyBodies ==
    {JStr(<<"a">>),
     JDict([choices |-> JNull]),
     JDict([choices |-> JList(<<>>)]),
     JDict([choices |-> JStr(<<"a">>)]),
     JDict([choices |-> EmptyDict]),
     JDict([choices |-> JList(<<JNull>>)]),
     JDict([choices |-> JList(<<EmptyDict>>)]),
     JDict([choices |-> JList(<<JDict([message |-> JNull])>>)]),
     JDict([choices |-> JList(<<JDict([message |-> JStr(<<"a">>)])>>)]),
     JDict([choices |-> JList(<<JDict([message |-> EmptyDict])>>)]),
     ReplyBody(JNull), ReplyBody(JNum(5)), ReplyBody(JList(<<>>))}
    \cup {ReplyBody(JStr(c)) : c \in Contents}

Bodies == ErrorBodies \cup ReplyBodies
Statuses == {200, 201, 401, 403, 429, 500}
TransportErrors ==
    {"ConnectionError", "ConnectTimeout", "ReadTimeout", "TooManyRedirects"}

Responses ==
    {[transport |-> "response", status |-> st, body |-> b] :
        st \in Statuses, b \in Bodies}
    \cup {[transport |-> e, status |-> 0, body |-> NotJSON] : e \in TransportErrors}

(***************************************************************************)
(* State.                                                                  *)
(***************************************************************************)
Pids == {1, 2}              \* the shell sessions, by process id

VARIABLES
    pc,          \* pc[p]: where session p's shell or tool process is
    wrapped,     \* wrapped[p]: the invocation went through the vox() function
    args,        \* args[p]: what sys.argv[1:] is
    command,     \* command[p]: main's local `command`
    outcome,     \* outcome[p]: ErrorClass of the generate_command call
    report,      \* report[p]: what main printed about a failed generation
    shown,       \* shown[p]: the command printed above the prompt
    emptyReply,  \* emptyReply[p]: the reply was a 200 whose content sanitizes to ""
    typed,       \* typed[p]: the line read by input(), while it is being routed
    route,       \* route[p]: "none", "affirm", "cancel" or "abort"
    wrote,       \* wrote[p]: how _write_cmd_file ended
    written,     \* written[p]: the text _write_cmd_file passed to f.write
    spawned,     \* spawned[p]: the command given to subprocess.run
    evald,       \* evald[p]: the command the wrapper gave to eval
    rc,          \* rc[p]: the exit status of the tool process
    lines,       \* lines[p]: lines of the prompt block left on the terminal
    cmdFile,     \* cmdFile[p]: the content of /tmp/.vox_cmd_<p>, if it exists
    tmpIsDir,    \* os.path.isdir("/tmp")
    generate_command_defined,  \* the name resolves in vox.cli's globals
    childEnd,    \* childEnd[p]: how the subprocess of _run_directly ended
    calls,       \* calls[p]: requests.post calls of this invocation
    serving,     \* serving[p]: the provider answers this invocation's request
                 \*   with a 200 whose content sanitizes to a command
    histAppended,\* histAppended[p]: the line the tool appended to the
                 \*   shell's history file (which is writable)
    writer,      \* writer[k]: the session whose tool process last opened
                 \*   /tmp/.vox_cmd_<k> for writing, while the file exists
    gpc, gresp, gresult,       \* a call of generate_command on its own
    cpc, cin, cout1, cout2     \* calls of _clean_response on their own

mainVars ==
    <<pc, wrapped, args, command, outcome, report, shown, emptyReply, typed, route, wrote,
      written, spawned, evald, rc, lines, cmdFile, tmpIsDir,
      generate_command_defined, childEnd, calls, serving, histAppended,
      writer>>
gatewayVars == <<gpc, gresp, gresult>>
cleanVars == <<cpc, cin, cout1, cout2>>
vars == <<mainVars, gatewayVars, cleanVars>>

(***************************************************************************)
(* cli.py: the pieces of main and of the shell wrapper.                    *)
(***************************************************************************)
ArgKinds == {"none", "help", "version", "setup", "reset", "shell-init", "query"}

AnswerAlphabet == {"y", "Y", "e", "s", SP}
Answers == SeqsUpTo(AnswerAlphabet, MaxAnswerLen)

\* result.returncode of the spawned command: an exit code, or minus the
\* number of the signal that killed it
ChildCodes == {0, 1, 127, 0 - 9}

\* how subprocess.run ends: it returns, or KeyboardInterrupt is raised
ChildEnds ==
    {[interrupted |-> FALSE, returncode |-> c] : c \in ChildCodes}
    \cup {[interrupted |-> TRUE, returncode |-> 0]}

\* the exit status a process ends with after sys.exit(n): its low 8 bits
ExitStatus(n) == n % 256

\* a faulty variant of RunDirectlyExit: KeyboardInterrupt is not handled
RunDirectlyExitUnhandled(end) ==
    IF end.interrupted THEN 1 ELSE ExitStatus(end.returncode)

\* _run_directly, lines 112 and 115
RunDirectlyExit(end) ==
    IF end.interrupted THEN 130 ELSE ExitStatus(end.returncode)

\* _get_cmd_file (lines 83-86): the file is keyed by os.getppid(), the pid
\* of the shell the tool was started from
\* a faulty variant of CmdFileKey: one file name for every session
CmdFileKeyShared(p) == CHOOSE k \in Pids : \A j \in Pids : k <= j

CmdFileKey(p) == p

\* the wrapper, line 26: cmd_file="/tmp/.vox_cmd_$$", $$ the pid of the
\* shell that runs the function
WrapperCmdFile(p) == p

\* _has_shell_wrapper (lines 99-105)
_has_shell_wrapper == tmpIsDir

\* a faulty variant of NormalizeAnswer: the answer is not lower-cased
NormalizeAnswerNoLower(inp) == StripChars(inp, SpaceChars)

\* line 192: input(...).strip().lower()
NormalizeAnswer(inp) == Lower(StripChars(inp, SpaceChars))

\* line 197: answer in ("", "y", "yes")
IsAffirmative(answer) == answer \in {<<>>, <<"y">>, <<"y", "e", "s">>}

\* lines 171-179: the except clauses of main
MainCatches(exc) == exc \in {"ConnectionError", "PermissionError", "RuntimeError"}

\* a faulty variant of MainAfterGenerate: a caught error does not end the process
MainAfterGenerateFallThrough(r) ==
    IF r.exc = "" \/ MainCatches(r.exc)
    THEN [pc |-> "display", rc |-> None,
          report |-> IF r.exc = "" THEN "none" ELSE "error_line"]
    ELSE [pc |-> "exited", rc |-> Some(1), report |-> "traceback"]

\* a faulty variant of MainAfterGenerate: a caught error sends the request
\* again
MainAfterGenerateRetry(r) ==
    IF r.exc = "" THEN [pc |-> "display", rc |-> None, report |-> "none"]
    ELSE IF MainCatches(r.exc)
         THEN [pc |-> "generate", rc |-> None, report |-> "error_line"]
         ELSE [pc |-> "exited", rc |-> Some(1), report |-> "traceback"]

\* lines 169-179: a caught exception is printed on one line and the process
\* exits 1; any other exception leaves main (traceback, exit status 1)
MainAfterGenerate(r) ==
    IF r.exc = "" THEN [pc |-> "display", rc |-> None, report |-> "none"]
    ELSE IF MainCatches(r.exc)
         THEN [pc |-> "exited", rc |-> Some(1), report |-> "error_line"]
         ELSE [pc |-> "exited", rc |-> Some(1), report |-> "traceback"]

\* cmd=$(cat "$cmd_file"): command substitution drops trailing newlines
ShellCat(content) == RStrip(content, {NL})

Fresh(f, p, v) == [f EXCEPT ![p] = v]

\* the user starts the tool from the shell of session p: through the vox()
\* function (lines 25-41) or not
ShellInvokeFrom(p, kinds) ==
    /\ pc[p] = "shell"
    /\ \E w \in BOOLEAN, a \in kinds :
          /\ wrapped' = Fresh(wrapped, p, w)
          /\ args' = Fresh(args, p, a)
    /\ pc' = Fresh(pc, p, "main")
    /\ command' = Fresh(command, p, <<>>)
    /\ outcome' = Fresh(outcome, p, "none")
    /\ report' = Fresh(report, p, "none")
    /\ shown' = Fresh(shown, p, None)
    /\ emptyReply' = Fresh(emptyReply, p, FALSE)
    /\ typed' = Fresh(typed, p, None)
    /\ route' = Fresh(route, p, "none")
    /\ wrote' = Fresh(wrote, p, "none")
    /\ written' = Fresh(written, p, None)
    /\ spawned' = Fresh(spawned, p, None)
    /\ evald' = Fresh(evald, p, None)
    /\ rc' = Fresh(rc, p, None)
    /\ lines' = Fresh(lines, p, 0)
    /\ childEnd' = Fresh(childEnd, p, None)
    /\ calls' = Fresh(calls, p, 0)
    /\ serving' = Fresh(serving, p, FALSE)
    /\ histAppended' = Fresh(histAppended, p, None)
    /\ UNCHANGED <<cmdFile, tmpIsDir, generate_command_defined>>
    /\ UNCHANGED <<writer>>
    /\ UNCHANGED <<gatewayVars, cleanVars>>

ShellInvoke(p) == ShellInvokeFrom(p, ArgKinds)

\* main, lines 128-154: no arguments or a flag; main returns
MainFlags(p) ==
    /\ pc[p] = "main"
    /\ args[p] # "query"
    /\ pc' = Fresh(pc, p, "exited")
    /\ rc' = Fresh(rc, p, Some(0))
    /\ UNCHANGED <<wrapped, args, command, outcome, report, shown, emptyReply,
                   typed, route, wrote, written, spawned, evald, lines,
                   cmdFile, tmpIsDir, generate_command_defined>>
    /\ UNCHANGED <<childEnd, calls, serving, histAppended, writer>>
    /\ UNCHANGED <<gatewayVars, cleanVars>>

\* main, lines 157-166: the key is stored, or first-time setup stores it,
\* or setup is left incomplete
MainResolveKey(p) ==
    /\ pc[p] = "main"
    /\ args[p] = "query"
    /\ \E key \in {"stored", "after_setup", "missing"} :
          IF key = "missing"
          THEN /\ pc' = Fresh(pc, p, "exited")
               /\ rc' = Fresh(rc, p, Some(1))
               /\ serving' = serving
          ELSE /\ pc' = Fresh(pc, p, "generate")
               /\ rc' = rc
               /\ \E good \in BOOLEAN : serving' = Fresh(serving, p, good)
    /\ UNCHANGED <<wrapped, args, command, outcome, report, shown, emptyReply,
                   typed, route, wrote, written, spawned, evald, lines,
                   cmdFile, tmpIsDir, generate_command_defined>>
    /\ UNCHANGED <<childEnd, calls, histAppended, writer>>
    /\ UNCHANGED <<gatewayVars, cleanVars>>

\* main, line 170, when the name generate_command does not resolve:
\* NameError is none of the caught classes
MainNameError(p) ==
    /\ pc[p] = "generate"
    /\ ~generate_command_defined
    /\ pc' = Fresh(pc, p, "exited")
    /\ rc' = Fresh(rc, p, Some(1))
    /\ outcome' = Fresh(outcome, p, "unclassified")
    /\ report' = Fresh(report, p, "traceback")
    /\ UNCHANGED <<wrapped, args, command, shown, emptyReply,
                   typed, route, wrote, written, spawned, evald, lines,
                   cmdFile, tmpIsDir, generate_command_defined>>
    /\ UNCHANGED <<childEnd, calls, serving, histAppended, writer>>
    /\ UNCHANGED <<gatewayVars, cleanVars>>

\* the reply is a 200 whose content is a string that sanitizes to a
\* command
Serves(resp) ==
    LET c == ContentOf(resp.body)
    IN /\ resp.transport = "response"
       /\ resp.status = 200
       /\ c.ok
       /\ c.v.t = "str"
       /\ _clean_response(c.v.s) # <<>>

\* main, lines 169-179: the call of generate_command (one requests.post,
\* llm_client.py:56, answered as the provider is disposed to) and its
\* handlers
MainGenerateFrom(p, replies) ==
    /\ pc[p] = "generate"
    /\ generate_command_defined
    /\ calls' = Fresh(calls, p, calls[p] + 1)
    /\ \E resp \in {x \in replies : Serves(x) = serving[p]} :
          LET r == generate_command(resp)
              next == MainAfterGenerate(r)
              c == ContentOf(resp.body)
          IN /\ command' = Fresh(command, p, r.command)
             /\ outcome' = Fresh(outcome, p, ErrorClass(r))
             /\ report' = Fresh(report, p, next.report)
             /\ pc' = Fresh(pc, p, next.pc)
             /\ rc' = Fresh(rc, p, next.rc)
             /\ emptyReply' = Fresh(emptyReply, p,
                    /\ resp.transport = "response"
                    /\ resp.status = 200
                    /\ c.ok
                    /\ c.v.t = "str"
                    /\ _clean_response(c.v.s) = <<>>)
    /\ UNCHANGED <<wrapped, args, shown,
                   typed, route, wrote, written, spawned, evald, lines,
                   cmdFile, tmpIsDir, generate_command_defined>>
    /\ UNCHANGED <<childEnd, serving, histAppended, writer>>
    /\ UNCHANGED <<gatewayVars, cleanVars>>

MainGenerate(p) == MainGenerateFrom(p, Responses)

\* the newline characters of a string
RECURSIVE Newlines(_)
Newlines(s) ==
    IF s = <<>> THEN 0
    ELSE (IF Head(s) = NL THEN 1 ELSE 0) + Newlines(Tail(s))

\* main, lines 187-189: a blank line, the command (one line more for every
\* newline inside it), a blank line
MainDisplay(p) ==
    /\ pc[p] = "display"
    /\ shown' = Fresh(shown, p, Some(command[p]))
    /\ lines' = Fresh(lines, p, 3 + Newlines(command[p]))
    /\ pc' = Fresh(pc, p, "prompt")
    /\ UNCHANGED <<wrapped, args, command, outcome, report, emptyReply,
                   typed, route, wrote, written, spawned, evald, rc,
                   cmdFile, tmpIsDir, generate_command_defined>>
    /\ UNCHANGED <<childEnd, calls, serving, histAppended, writer>>
    /\ UNCHANGED <<gatewayVars, cleanVars>>

\* main, lines 191-192 and 197: a line is read at the prompt (the prompt
\* line is the fourth line) and routed
MainReadAnswerFrom(p, answers) ==
    /\ pc[p] = "prompt"
    /\ \E inp \in answers :
          /\ typed' = Fresh(typed, p, Some(inp))
          /\ route' = Fresh(route, p,
                 IF IsAffirmative(NormalizeAnswer(inp)) THEN "affirm" ELSE "cancel")
    /\ lines' = Fresh(lines, p, lines[p] + 1)
    /\ pc' = Fresh(pc, p, "answered")
    /\ UNCHANGED <<wrapped, args, command, outcome, report, shown, emptyReply,
                   wrote, written, spawned, evald, rc,
                   cmdFile, tmpIsDir, generate_command_defined>>
    /\ UNCHANGED <<childEnd, calls, serving, histAppended, writer>>
    /\ UNCHANGED <<gatewayVars, cleanVars>>

MainReadAnswer(p) == MainReadAnswerFrom(p, Answers)

\* main, lines 193-195: KeyboardInterrupt or EOFError at the prompt;
\* print() ends the prompt line, nothing is erased, exit status 0
MainPromptAborted(p) ==
    /\ pc[p] = "prompt"
    /\ route' = Fresh(route, p, "abort")
    /\ lines' = Fresh(lines, p, lines[p] + 1)
    /\ rc' = Fresh(rc, p, Some(0))
    /\ pc' = Fresh(pc, p, "exited")
    /\ UNCHANGED <<wrapped, args, command, outcome, report, shown, emptyReply,
                   typed, wrote, written, spawned, evald,
                   cmdFile, tmpIsDir, generate_command_defined>>
    /\ UNCHANGED <<childEnd, calls, serving, histAppended, writer>>
    /\ UNCHANGED <<gatewayVars, cleanVars>>

\* a faulty variant of AfterAnswer: the test of line 197 is inverted
AfterAnswerInverted(r) ==
    IF r # "affirm"
    THEN [pc |-> IF _has_shell_wrapper THEN "write" ELSE "run", rc |-> None]
    ELSE [pc |-> "exited", rc |-> Some(1)]

\* lines 197-210: the branch taken after the answer
AfterAnswer(r) ==
    IF r = "affirm"
    THEN [pc |-> IF _has_shell_wrapper THEN "write" ELSE "run", rc |-> None]
    ELSE [pc |-> "exited", rc |-> Some(1)]

\* main, lines 197-210: _clear_lines(4), then the branch taken; `answer`
\* is not read again
MainDispatch(p) ==
    /\ pc[p] = "answered"
    /\ lines' = Fresh(lines, p, lines[p] - 4)
    /\ typed' = Fresh(typed, p, None)
    /\ pc' = Fresh(pc, p, AfterAnswer(route[p]).pc)
    /\ rc' = Fresh(rc, p, AfterAnswer(route[p]).rc)
    /\ UNCHANGED <<wrapped, args, command, outcome, report, shown, emptyReply,
                   route, wrote, written, spawned, evald,
                   cmdFile, tmpIsDir, generate_command_defined>>
    /\ UNCHANGED <<childEnd, calls, serving, histAppended, writer>>
    /\ UNCHANGED <<gatewayVars, cleanVars>>

\* _write_cmd_file (lines 89-96) and sys.exit(0) (line 203): the write
\* succeeds, or open() fails (the file is as it was), or the write fails
\* after open(..., "w") truncated the file; IOError and OSError are passed
\* over
WriteCmdFile(p) ==
    /\ pc[p] = "write"
    /\ \E how \in {"ok", "open_fails", "write_fails"} :
          /\ wrote' = Fresh(wrote, p, how)
          /\ written' = Fresh(written, p,
                 IF how = "ok" THEN Some(command[p]) ELSE None)
          /\ cmdFile' =
                 CASE how = "ok" -> Fresh(cmdFile, CmdFileKey(p), Some(command[p]))
                   [] how = "write_fails" -> Fresh(cmdFile, CmdFileKey(p), Some(<<>>))
                   [] OTHER -> cmdFile
          /\ writer' = IF how = "open_fails" THEN writer
                       ELSE Fresh(writer, CmdFileKey(p), Some(p))
    /\ rc' = Fresh(rc, p, Some(0))
    /\ pc' = Fresh(pc, p, "exited")
    /\ UNCHANGED <<wrapped, args, command, outcome, report, shown, emptyReply,
                   typed, route, spawned, evald, lines,
                   tmpIsDir, generate_command_defined>>
    /\ UNCHANGED <<childEnd, calls, serving, histAppended>>
    /\ UNCHANGED <<gatewayVars, cleanVars>>

\* _run_directly (lines 108-115): the command runs in a subprocess; the
\* tool exits with its return code, or with 130 on KeyboardInterrupt
RunDirectly(p) ==
    /\ pc[p] = "run"
    /\ spawned' = Fresh(spawned, p, Some(command[p]))
    /\ \E end \in ChildEnds :
          /\ childEnd' = Fresh(childEnd, p, Some(end))
          /\ rc' = Fresh(rc, p, Some(RunDirectlyExit(end)))
    /\ pc' = Fresh(pc, p, "exited")
    /\ UNCHANGED <<wrapped, args, command, outcome, report, shown, emptyReply,
                   typed, route, wrote, written, evald, lines,
                   cmdFile, tmpIsDir, generate_command_defined>>
    /\ UNCHANGED <<calls, serving, histAppended, writer>>
    /\ UNCHANGED <<gatewayVars, cleanVars>>

\* the tool was started without the wrapper: the shell has its prompt back
ShellReturn(p) ==
    /\ pc[p] = "exited"
    /\ ~wrapped[p]
    /\ pc' = Fresh(pc, p, "shell")
    /\ UNCHANGED <<wrapped, args, command, outcome, report, shown, emptyReply,
                   typed, route, wrote, written, spawned, evald, rc, lines,
                   cmdFile, tmpIsDir, generate_command_defined>>
    /\ UNCHANGED <<childEnd, calls, serving, histAppended, writer>>
    /\ UNCHANGED <<gatewayVars, cleanVars>>

\* the vox() function after `command vox "$@"` (lines 29-39): with rc 0 and
\* the file /tmp/.vox_cmd_$$ present, read it, remove it and, if the text is
\* not empty, put it in the history and eval it
WrapperAfter(p) ==
    /\ pc[p] = "exited"
    /\ wrapped[p]
    /\ IF rc[p] = Some(0) /\ cmdFile[WrapperCmdFile(p)] # None
       THEN LET cmd == ShellCat(CHOOSE c \in cmdFile[WrapperCmdFile(p)] : TRUE)
            IN /\ cmdFile' = Fresh(cmdFile, WrapperCmdFile(p), None)
               /\ writer' = Fresh(writer, WrapperCmdFile(p), None)
               /\ evald' = Fresh(evald, p, IF cmd # <<>> THEN Some(cmd) ELSE None)
       ELSE UNCHANGED <<cmdFile, writer, evald>>
    /\ pc' = Fresh(pc, p, "shell")
    /\ UNCHANGED <<wrapped, args, command, outcome, report, shown, emptyReply,
                   typed, route, wrote, written, spawned, rc, lines,
                   tmpIsDir, generate_command_defined>>
    /\ UNCHANGED <<childEnd, calls, serving, histAppended>>
    /\ UNCHANGED <<gatewayVars, cleanVars>>

Step(p) ==
    \/ ShellInvoke(p)
    \/ MainFlags(p)
    \/ MainResolveKey(p)
    \/ MainNameError(p)
    \/ MainGenerate(p)
    \/ MainDisplay(p)
    \/ MainReadAnswer(p)
    \/ MainPromptAborted(p)
    \/ MainDispatch(p)
    \/ WriteCmdFile(p)
    \/ RunDirectly(p)
    \/ ShellReturn(p)
    \/ WrapperAfter(p)

(***************************************************************************)
(* One shell session running the tool again and again.                     *)
(***************************************************************************)
MainStart ==
    /\ pc = [p \in Pids |-> "shell"]
    /\ wrapped = [p \in Pids |-> FALSE]
    /\ args = [p \in Pids |-> "none"]
    /\ command = [p \in Pids |-> <<>>]
    /\ outcome = [p \in Pids |-> "none"]
    /\ report = [p \in Pids |-> "none"]
    /\ shown = [p \in Pids |-> None]
    /\ emptyReply = [p \in Pids |-> FALSE]
    /\ typed = [p \in Pids |-> None]
    /\ route = [p \in Pids |-> "none"]
    /\ wrote = [p \in Pids |-> "none"]
    /\ written = [p \in Pids |-> None]
    /\ spawned = [p \in Pids |-> None]
    /\ evald = [p \in Pids |-> None]
    /\ rc = [p \in Pids |-> None]
    /\ lines = [p \in Pids |-> 0]
    /\ cmdFile = [p \in Pids |-> None]
    /\ childEnd = [p \in Pids |-> None]
    /\ calls = [p \in Pids |-> 0]
    /\ serving = [p \in Pids |-> FALSE]
    /\ histAppended = [p \in Pids |-> None]
    /\ writer = [p \in Pids |-> None]

GatewayIdle ==
    /\ gpc = "idle"
    /\ gresp = [transport |-> "ConnectionError", status |-> 0, body |-> NotJSON]
    /\ gresult = GenReturn(<<>>)

CleanIdle ==
    /\ cpc = "idle"
    /\ cin = [kind |-> "raw", text |-> <<>>, tag |-> <<>>, cmd |-> <<>>]
    /\ cout1 = <<>>
    /\ cout2 = <<>>

\* /tmp is a directory or not; the name generate_command is bound in
\* vox.cli's namespace or not.  cli.py itself never binds it (its imports,
\* lines 3-8, leave it out), so a run of the module as shipped has it
\* unbound; it is bound only where the caller of main has put it there.
Init ==
    /\ MainStart
    /\ tmpIsDir \in BOOLEAN
    /\ generate_command_defined \in BOOLEAN
    /\ GatewayIdle
    /\ CleanIdle

Sessions == {1}           \* one session runs; the other shell stays at its prompt

Next == \E p \in Sessions : Step(p)

Spec == Init /\ [][Next]_vars

(***************************************************************************)
(* Two shell sessions, each running the tool on queries again and again,   *)
(* their steps interleaved in every order; generate_command resolves.      *)
(***************************************************************************)
SessionReplies ==
    {r \in Responses :
        /\ r.transport = "response"
        /\ \/ r.status = 200 /\ r.body \in {ReplyBody(JStr(<<"a">>)),
                                             ReplyBody(JStr(<<"a", "a">>))}
           \/ r.status = 429 /\ r.body = EmptyDict}

SessionAnswers == {a \in Answers : a \in {<<"y">>, <<"e">>}}

SessionStep(p) ==
    \/ ShellInvokeFrom(p, {"query"})
    \/ MainResolveKey(p)
    \/ MainGenerateFrom(p, SessionReplies)
    \/ MainDisplay(p)
    \/ MainReadAnswerFrom(p, SessionAnswers)
    \/ MainPromptAborted(p)
    \/ MainDispatch(p)
    \/ WriteCmdFile(p)
    \/ RunDirectly(p)
    \/ ShellReturn(p)
    \/ WrapperAfter(p)

InitSessions ==
    /\ MainStart
    /\ tmpIsDir \in BOOLEAN
    /\ generate_command_defined = TRUE
    /\ GatewayIdle
    /\ CleanIdle

NextSessions == \E p \in Pids : SessionStep(p)

SpecSessions == InitSessions /\ [][NextSessions]_vars

(***************************************************************************)
(* generate_command called on its own, on every modelled reply.            *)
(***************************************************************************)
GatewayCall ==
    /\ gpc = "call"
    /\ gresult' = generate_command(gresp)
    /\ gpc' = "done"
    /\ UNCHANGED <<gresp, mainVars, cleanVars>>

InitGateway ==
    /\ MainStart
    /\ tmpIsDir = TRUE
    /\ generate_command_defined = TRUE
    /\ gpc = "call"
    /\ gresp \in Responses
    /\ gresult = GenReturn(<<>>)
    /\ CleanIdle

NextGateway == GatewayCall

SpecGateway == InitGateway /\ [][NextGateway]_vars

(***************************************************************************)
(* _clean_response called on its own: on a raw text, and again on its own  *)
(* result; or on a command wrapped in a fenced block.                      *)
(***************************************************************************)
Fence == <<BT, BT, BT>>
TagChars == {"a", "b"}
Tags == SeqsUpTo(TagChars, MaxTagLen)
CmdAlphabet == {SP, NL, "a", "-"}
FencedCmds ==
    {c \in SeqsUpTo(CmdAlphabet, MaxCmdLen) : StripChars(c, SpaceChars) = c}
Fenced(tag, c) == Fence \o tag \o <<NL>> \o c \o <<NL>> \o Fence

CleanInputs ==
    {[kind |-> "raw", text |-> t, tag |-> <<>>, cmd |-> <<>>] :
        t \in SeqsUpTo(TextAlphabet, MaxTextLen)}
    \cup {[kind |-> "fenced", text |-> Fenced(t, c), tag |-> t, cmd |-> c] :
        t \in Tags, c \in FencedCmds}

CleanCall ==
    /\ cpc = "start"
    /\ cout1' = _clean_response(cin.text)
    /\ cpc' = "once"
    /\ UNCHANGED <<cin, cout2, mainVars, gatewayVars>>

CleanAgain ==
    /\ cpc = "once"
    /\ cout2' = _clean_response(cout1)
    /\ cpc' = "twice"
    /\ UNCHANGED <<cin, cout1, mainVars, gatewayVars>>

InitClean ==
    /\ MainStart
    /\ tmpIsDir = TRUE
    /\ generate_command_defined = TRUE
    /\ GatewayIdle
    /\ cpc = "start"
    /\ cin \in CleanInputs
    /\ cout1 = <<>>
    /\ cout2 = <<>>

NextClean == CleanCall \/ CleanAgain

SpecClean == InitClean /\ [][NextClean]_vars

(***************************************************************************)
(* The claims.                                                             *)
(***************************************************************************)
\* the confirmed command of session p's invocation was run: by the tool in
\* a subprocess, or by the wrapper's eval
Executed(p) ==
    \/ spawned[p] = Some(command[p])
    \/ evald[p] = Some(command[p])

\* C1: once an invocation that was not started through the shell wrapper
\* is over, a command the user confirmed has been run in a subprocess.
C1_UnwrappedConfirmedRuns ==
    \A p \in Pids :
        (pc[p] = "shell" /\ route[p] = "affirm" /\ ~wrapped[p])
            => spawned[p] = Some(command[p])

\* C2: whenever the wrapper evaluates a command, it is the command the user
\* confirmed in the invocation that just exited.
C2_WrapperEvaluatesConfirmed ==
    \A p \in Pids :
        evald[p] # None => (route[p] = "affirm" /\ evald[p] = Some(command[p]))

\* C3: after an affirmative confirmation in which the write of the handoff
\* file failed, the confirmed command has still been executed when the
\* invocation (here one started through the wrapper) is over.
C3_WriteFailureStillRuns ==
    \A p \in Pids :
        (/\ pc[p] = "shell"
         /\ wrapped[p]
         /\ route[p] = "affirm"
         /\ wrote[p] \in {"open_fails", "write_fails"})
            => Executed(p)

\* no handoff file written, nothing spawned, nothing evaluated
NoEffects(p) ==
    /\ wrote[p] = "none"
    /\ written[p] = None
    /\ spawned[p] = None
    /\ evald[p] = None

\* C4 as stated: the inputs "", "y", "Y" and "yes" route to the affirmative
\* branch and every other non-empty input routes to cancellation, which
\* executes nothing and writes no handoff file.
C4_RoutingAsStated ==
    \A p \in Pids :
        /\ \A inp \in typed[p] :
              /\ inp \in {<<>>, <<"y">>, <<"Y">>, <<"y", "e", "s">>}
                    => route[p] = "affirm"
              /\ (inp # <<>> /\ inp \notin {<<"y">>, <<"Y">>, <<"y", "e", "s">>})
                    => route[p] = "cancel"
        /\ route[p] = "cancel" => NoEffects(p)

\* the typed line, without its surrounding whitespace, is empty or spells
\* y or yes in any letter case
SpellsYes(inp) ==
    LET core == StripChars(inp, SpaceChars)
    IN \/ core = <<>>
       \/ Len(core) = 1 /\ core[1] \in {"y", "Y"}
       \/ /\ Len(core) = 3
          /\ core[1] \in {"y", "Y"}
          /\ core[2] \in {"e", "E"}
          /\ core[3] \in {"s", "S"}

\* C4, amended: an input routes to the affirmative branch exactly when,
\* with surrounding whitespace removed and letters lower-cased, it is "",
\* "y" or "yes"; every other input routes to cancellation, which executes
\* nothing and writes no handoff file.
C4_Routing ==
    \A p \in Pids :
        /\ \A inp \in typed[p] :
              /\ SpellsYes(inp) => route[p] = "affirm"
              /\ ~SpellsYes(inp) => route[p] = "cancel"
        /\ route[p] = "cancel" => NoEffects(p)

\* an upper-case Y after a blank has been read and routed to the
\* affirmative branch
C4_Witness ==
    \E p \in Pids :
        /\ pc[p] = "answered"
        /\ typed[p] = Some(<<SP, "Y">>)
        /\ route[p] = "affirm"

\* C5: when generation fails with a classified error, the process ends
\* with a non-zero exit status, and has not shown the command, reached the
\* prompt, written the handoff file or spawned a subprocess.
C5_ClassifiedErrorEnds ==
    \A p \in Pids :
        outcome[p] \in ClassifiedErrors =>
            /\ pc[p] \in {"exited", "shell"}
            /\ rc[p] # None
            /\ rc[p] # Some(0)
            /\ shown[p] = None
            /\ route[p] = "none"
            /\ wrote[p] = "none"
            /\ written[p] = None
            /\ spawned[p] = None

\* a rate-limited generation has ended the process
C5_Witness ==
    \E p \in Pids :
        /\ outcome[p] = "RateLimited"
        /\ pc[p] = "exited"
        /\ rc[p] = Some(1)

\* the error message of a JSON error body: body["error"]["message"]
HasMessage(body) ==
    /\ body.t = "dict"
    /\ "error" \in DOMAIN body.d
    /\ body.d["error"].t = "dict"
    /\ "message" \in DOMAIN body.d["error"].d

MessageText(body) ==
    IF HasMessage(body) /\ body.d["error"].d["message"].t = "str"
    THEN body.d["error"].d["message"].s
    ELSE <<>>

Mentions(body, word) == Contains(Lower(MessageText(body)), word)

\* C6: a 401 whose error message contains "model" and "tier" gives
\* ModelNotEntitled, a 401 whose message contains neither gives
\* InvalidCredential, a 429 gives RateLimited, and any other status but
\* 200 gives ProviderError with that status and, when the body has a
\* message, that message.
C6_StatusMapping ==
    (gpc = "done" /\ gresp.transport = "response") =>
        /\ (/\ gresp.status = 401
            /\ Mentions(gresp.body, Word_model)
            /\ Mentions(gresp.body, Word_tier))
              => ErrorClass(gresult) = "ModelNotEntitled"
        /\ (/\ gresp.status = 401
            /\ ~Mentions(gresp.body, Word_model)
            /\ ~Mentions(gresp.body, Word_tier))
              => ErrorClass(gresult) = "InvalidCredential"
        /\ gresp.status = 429 => ErrorClass(gresult) = "RateLimited"
        /\ gresp.status \notin {200, 401, 429} =>
              /\ ErrorClass(gresult) = "ProviderError"
              /\ gresult.status = gresp.status
              /\ MessageText(gresp.body) # <<>>
                    => gresult.detail = JStr(MessageText(gresp.body))

\* the body has the shape {choices: [{message: {content: <string>}}, ...]}
WellShaped(body) ==
    /\ body.t = "dict"
    /\ "choices" \in DOMAIN body.d
    /\ body.d["choices"].t = "list"
    /\ body.d["choices"].items # <<>>
    /\ LET first == body.d["choices"].items[1]
       IN /\ first.t = "dict"
          /\ "message" \in DOMAIN first.d
          /\ first.d["message"].t = "dict"
          /\ "content" \in DOMAIN first.d["message"].d
          /\ first.d["message"].d["content"].t = "str"

\* C7: a 200 response whose body does not have the expected shape is
\* classified as MalformedResponse.
C7_UnparseableIsMalformed ==
    (/\ gpc = "done"
     /\ gresp.transport = "response"
     /\ gresp.status = 200
     /\ ~WellShaped(gresp.body))
        => ErrorClass(gresult) = "MalformedResponse"

\* C8: a 200 reply whose sanitized content is empty gives EmptyResponse,
\* and the command shown, written to the handoff file or given to a
\* subprocess is never the empty string.
C8_NoBlankCommand ==
    \A p \in Pids :
        /\ emptyReply[p] => outcome[p] = "EmptyResponse"
        /\ shown[p] # Some(<<>>)
        /\ written[p] # Some(<<>>)
        /\ spawned[p] # Some(<<>>)

\* a reply that sanitizes to nothing has ended the process as EmptyResponse
C8_Witness ==
    \E p \in Pids :
        /\ emptyReply[p]
        /\ outcome[p] = "EmptyResponse"
        /\ pc[p] = "exited"

\* C9: sanitizing the result of a sanitization changes nothing.
C9_Idempotent ==
    (cpc = "twice" /\ cin.kind = "raw") => cout2 = cout1

\* C10: sanitizing a command wrapped in a fenced block, with or without a
\* language tag, gives back exactly the command.
C10_FencedRoundTrip ==
    (cpc # "start" /\ cin.kind = "fenced") => cout1 = cin.cmd

\* a fenced block with a tag and a command with a blank inside has been
\* sanitized
C10_Witness ==
    /\ cpc = "once"
    /\ cin.kind = "fenced"
    /\ cin.tag = <<"b">>
    /\ cin.cmd = <<"a", SP, "-">>
    /\ cout1 = <<"a", SP, "-">>

\* C11: the process of the main flow exits 0 when the confirmation prompt
\* is ended by end-of-input or an interrupt, 1 after a negative answer, 130
\* when an interrupt is raised while the subprocess runs, and otherwise,
\* in direct execution, with the exit code of the subprocess.
C11_ExitStatus ==
    \A p \in Pids :
        pc[p] = "exited" =>
            /\ route[p] = "abort" => rc[p] = Some(0)
            /\ route[p] = "cancel" => rc[p] = Some(1)
            /\ \A end \in childEnd[p] :
                  /\ end.interrupted => rc[p] = Some(130)
                  /\ (~end.interrupted /\ end.returncode \in 0..255)
                        => rc[p] = Some(end.returncode)

\* the subprocess was interrupted and the process has exited 130
C11_Witness ==
    \E p \in Pids :
        /\ pc[p] = "exited"
        /\ route[p] = "affirm"
        /\ spawned[p] = Some(command[p])
        /\ \E end \in childEnd[p] : end.interrupted
        /\ rc[p] = Some(130)

\* C12: an invocation sends the request to the provider at most once, a
\* failure included, and an invocation that has a generation result (a
\* command or a classified error) has sent it exactly once.
C12_OneCall ==
    \A p \in Pids :
        /\ calls[p] <= 1
        /\ (\/ pc[p] \in {"display", "prompt", "answered", "write", "run"}
            \/ outcome[p] \in ClassifiedErrors)
              => calls[p] = 1

\* the one request of an invocation has failed and the process has exited
C12_Witness ==
    \E p \in Pids :
        /\ pc[p] = "exited"
        /\ outcome[p] = "RateLimited"
        /\ calls[p] = 1

\* C13: an invocation with a query and a resolved API key, whose provider
\* answers with a 200 and content that sanitizes to a command, has
\* displayed exactly that command and been through the confirmation prompt
\* by the time its process exits.
C13_GeneratingToPrompt ==
    \A p \in Pids :
        (serving[p] /\ pc[p] = "exited") =>
            /\ command[p] # <<>>
            /\ shown[p] = Some(command[p])
            /\ route[p] # "none"

\* C14: when a confirmed command of an invocation outside the wrapper has
\* been given to a subprocess, it has been appended to the shell's history
\* file before.
C14_HistoryThenRun ==
    \A p \in Pids :
        (~wrapped[p] /\ route[p] = "affirm" /\ spawned[p] # None)
            => histAppended[p] = Some(command[p])

\* C15: when the answer has been read, exactly four lines stand on the
\* terminal since generation, and after every resolution of the prompt
\* (an answer, an interrupt, end-of-input) none of them is left by the time
\* the process goes on or exits.
C15_DisplayDiscipline ==
    \A p \in Pids :
        /\ pc[p] = "answered" => lines[p] = 4
        /\ (route[p] # "none" /\ pc[p] \in {"write", "run", "exited"})
              => lines[p] = 0

\* C17: a timeout of the request, in the connect phase or in the read
\* phase, is Unreachable with the timed-out message; a transport failure
\* that is no timeout is Unreachable with the generic message.
C17_TimeoutsClassified ==
    gpc = "done" =>
        /\ gresp.transport \in {"ConnectTimeout", "ReadTimeout"}
              => /\ ErrorClass(gresult) = "Unreachable"
                 /\ gresult.msg = MsgTimedOut
        /\ gresp.transport = "ConnectionError"
              => /\ ErrorClass(gresult) = "Unreachable"
                 /\ gresult.msg = MsgUnreachable

\* C18: a step of the tool process after which the prompt stands answered
\* negatively, interrupted or at end-of-input writes no handoff file (every
\* handoff file stays as it was) and spawns no subprocess.
C18_CancelNoEffects ==
    [][\A p \in Pids :
          (pc[p] \notin {"shell", "exited"} /\ route'[p] \in {"cancel", "abort"})
              => /\ cmdFile' = cmdFile
                 /\ wrote'[p] = "none"
                 /\ written'[p] = None
                 /\ spawned'[p] = None]_vars

\* a negative answer has ended the process, which has left the handoff
\* file of an earlier invocation in place
C18_Witness ==
    \E p \in Pids :
        /\ pc[p] = "exited"
        /\ route[p] = "cancel"
        /\ cmdFile[CmdFileKey(p)] # None
        /\ wrote[p] = "none"
        /\ spawned[p] = None

\* C16: with two sessions interleaved, the step in which a tool process
\* writes the handoff file changes no file but the one keyed by its
\* session's pid; the step of a session's wrapper changes no file but that
\* session's, and what it evaluates is the content of that file, written
\* by an invocation of its own session.
C16_SessionIsolation ==
    [][\A p \in Pids :
          /\ (pc[p] = "write" /\ pc'[p] = "exited") =>
                \A k \in Pids \ {p} :
                    cmdFile'[k] = cmdFile[k] /\ writer'[k] = writer[k]
          /\ (pc[p] = "exited" /\ wrapped[p] /\ pc'[p] = "shell") =>
                /\ \A k \in Pids \ {p} : cmdFile'[k] = cmdFile[k]
                /\ evald'[p] # None =>
                      /\ writer[p] = Some(p)
                      /\ \E c \in cmdFile[p] : evald'[p] = Some(ShellCat(c))
                      /\ cmdFile'[p] = None]_vars

\* both sessions have a confirmed command of their own in their own
\* handoff file, both wrappers about to read
C16_Witness ==
    /\ pc[1] = "exited" /\ pc[2] = "exited"
    /\ wrapped[1] /\ wrapped[2]
    /\ cmdFile[1] = Some(<<"a">>) /\ writer[1] = Some(1)
    /\ cmdFile[2] = Some(<<"a", "a">>) /\ writer[2] = Some(2)

=============================================================================
